---- MODULE Spec2Model ----
(***************************************************************************)
(* Model of create_excel_data.py: a literal dict of nine columns is turned *)
(* into a pandas DataFrame and written with DataFrame.to_excel (openpyxl   *)
(* engine, index=False) to test/akhan/data/akhan-combined-test-data.xlsx,  *)
(* after which the absolute path is printed.                               *)
(*                                                                         *)
(* The state is the position of the script (pc), the dict `data`, the      *)
(* frame `df`, the part of the filesystem the script touches (the parent   *)
(* directory and the destination file), what the run printed, and the      *)
(* exception that ended the run, if any.                                   *)
(***************************************************************************)
EXTENDS Integers, Sequences, FiniteSets, TLC

VARIABLES pc, data, df, cwd, dirExists, fsFault, file, stdout, error, steps, runs, prevOut

vars == <<pc, data, df, cwd, dirExists, fsFault, file, stdout, error, steps, runs, prevOut>>

(* Number of invocations of the script that one behaviour follows. *)
MaxRuns == 2

----------------------------------------------------------------------------
(* The literal of lines 5-22, column by column.                            *)

NumCases == 17

Repeat(s, n) == [i \in 1..n |-> s]

testCase_col ==
    <<"TC501-1", "TC501-2", "TC501-3", "TC503-1", "TC503-2", "TC503-3", "TC503-4", "TC503-5",
      "TC503-6", "TC503-7", "TC503-8", "TC503-9", "TC503-10", "TC503-11", "TC502-1", "TC502-2", "TC502-3">>

testType_col ==
    <<"login", "login", "login", "navigation", "navigation", "navigation", "navigation", "navigation",
      "navigation", "navigation", "navigation", "navigation", "navigation", "navigation",
      "menu-verify", "menu-verify", "menu-verify">>

(* The literal with a credential left on a navigation record. *)
username_col_stray ==
    <<"Admin", "testuser", "manager", "Admin", "", "", "", "", "", "", "", "", "", "", "", "", "">>

username_col ==
    <<"Admin", "testuser", "manager", "", "", "", "", "", "", "", "", "", "", "", "", "", "">>

password_col ==
    <<"admin123", "test123", "manager123", "", "", "", "", "", "", "", "", "", "", "", "", "", "">>

module_col ==
    <<"", "", "", "Admin", "PIM", "Leave", "Time", "Recruitment", "My Info", "Performance", "Dashboard",
      "Directory", "Maintenance", "Buzz", "Admin", "PIM", "Leave">>

expectedResult_col ==
    <<"Login successful", "Login successful", "Login successful", "Admin page", "PIM page",
      "Leave page", "Time page", "Recruitment page", "My Info page", "Performance page",
      "Dashboard page", "Directory page", "Maintenance page", "Buzz page", "Admin menu visible",
      "PIM menu visible", "Leave menu visible">>

executeFlag_col == Repeat("Y", NumCases)

environment_col == Repeat("QA", NumCases)

priority_col ==
    <<"high", "high", "medium", "high", "high", "medium", "medium", "medium", "low", "low",
      "high", "low", "low", "low", "medium", "medium", "medium">>

(* A dict keeps insertion order: a sequence of <<key, values>> pairs. *)
ReferenceData ==
    << <<"testCase", testCase_col>>,
       <<"testType", testType_col>>,
       <<"username", username_col>>,
       <<"password", password_col>>,
       <<"module", module_col>>,
       <<"expectedResult", expectedResult_col>>,
       <<"executeFlag", executeFlag_col>>,
       <<"environment", environment_col>>,
       <<"priority", priority_col>> >>

excel_path == "test/akhan/data/akhan-combined-test-data.xlsx"

----------------------------------------------------------------------------
(* pd.DataFrame(data), line 25.                                            *)

NoFrame == [columns |-> <<>>, index |-> <<>>, rows |-> <<>>]

ColLens(d) == {Len(d[j][2]) : j \in 1..Len(d)}

MinLen(d) == CHOOSE n \in ColLens(d) : \A m \in ColLens(d) : n <= m

Frame(d, n) ==
    [columns |-> [j \in 1..Len(d) |-> d[j][1]],
     index   |-> [i \in 1..n |-> i - 1],
     rows    |-> [i \in 1..n |-> [j \in 1..Len(d) |-> d[j][2][i]]]]

(* A constructor that cuts every column to the shortest one. *)
DataFrameTruncating(d) ==
    [error |-> "none", frame |-> Frame(d, MinLen(d))]

(* A constructor that lays the records out last to first. *)
DataFrameReversed(d) ==
    IF Cardinality(ColLens(d)) > 1
    THEN [error |-> "ValueError", frame |-> NoFrame]
    ELSE LET n == MinLen(d)
             f == Frame(d, n)
         IN  [error |-> "none",
              frame |-> [f EXCEPT !.rows = [i \in 1..n |-> f.rows[n + 1 - i]]]]

(* Columns of unequal length raise ValueError ("All arrays must be of the  *)
(* same length"); otherwise the frame has the dict's keys as columns, in   *)
(* insertion order, a RangeIndex, and row i made of the i-th entries.      *)
DataFrame(d) ==
    IF Cardinality(ColLens(d)) > 1
    THEN [error |-> "ValueError", frame |-> NoFrame]
    ELSE [error |-> "none", frame |-> Frame(d, MinLen(d))]

----------------------------------------------------------------------------
(* df.to_excel(excel_path, index=False, engine='openpyxl'), line 29.       *)

(* A worksheet cell as the workbook stores it: a string cell, a numeric    *)
(* cell, or a cell without a value.  openpyxl writes no value for "".      *)
StrCell(s) == [t |-> "s", v |-> s]
NumCell(n) == [t |-> "n", v |-> ToString(n)]
BlankCell  == [t |-> "blank", v |-> ""]

(* A writer that puts a placeholder where the value is empty (na_rep). *)
CellOfPlaceholder(s) == IF s = "" THEN StrCell("-") ELSE StrCell(s)

CellOf(s) == IF s = "" THEN BlankCell ELSE StrCell(s)

(* The sheet of a frame: the header row, then one row per record; with     *)
(* index=True a leading column holds the index.                            *)
SheetRows(f, index, header) ==
    LET lead(c) == IF index THEN <<c>> ELSE <<>>
        head == IF header
                THEN << lead(BlankCell) \o [j \in 1..Len(f.columns) |-> StrCell(f.columns[j])] >>
                ELSE <<>>
        body == [i \in 1..Len(f.rows) |->
                    lead(NumCell(f.index[i])) \o [j \in 1..Len(f.rows[i]) |-> CellOf(f.rows[i][j])]]
    IN  head \o body

(* to_excel called with its default index=True. *)
to_excel_index(f) == SheetRows(f, TRUE, TRUE)

(* to_excel called with header=False. *)
to_excel_noheader(f) == SheetRows(f, FALSE, FALSE)

(* to_excel called with startrow=1: the sheet begins with an empty row. *)
to_excel_startrow(f) == << <<>> >> \o SheetRows(f, FALSE, TRUE)

to_excel(f) == SheetRows(f, FALSE, TRUE)

(* What is at the destination path. *)
NoFile        == [kind |-> "absent", rows |-> <<>>]
OtherFile     == [kind |-> "other", rows |-> <<>>]
TruncatedFile == [kind |-> "truncated", rows |-> <<>>]
Workbook(r)   == [kind |-> "xlsx", rows |-> r]
OldWorkbook   == Workbook(<< <<StrCell("testCase"), StrCell("status")>>,
                             <<StrCell("TC000-0"), StrCell("stale")>> >>)

PriorFiles == {NoFile, OtherFile, TruncatedFile, OldWorkbook}

Faults == {"ok", "denied", "full"}

(* An export that creates the missing parent directory first. *)
ExportOutcomeMkdir(dirEx, fault, old, f) ==
    CASE fault = "denied" -> [error |-> "OSError", dirExists |-> dirEx, file |-> old]
      [] fault = "full"   -> [error |-> "OSError", dirExists |-> TRUE, file |-> TruncatedFile]
      [] OTHER            -> [error |-> "none", dirExists |-> TRUE, file |-> Workbook(to_excel(f))]

(* An export that opens an existing workbook and adds its rows below. *)
ExportOutcomeAppend(dirEx, fault, old, f) ==
    CASE ~dirEx           -> [error |-> "OSError", dirExists |-> dirEx, file |-> old]
      [] fault = "denied" -> [error |-> "OSError", dirExists |-> dirEx, file |-> old]
      [] fault = "full"   -> [error |-> "OSError", dirExists |-> dirEx, file |-> TruncatedFile]
      [] OTHER            -> [error |-> "none", dirExists |-> dirEx,
                              file |-> IF old.kind = "xlsx"
                                       THEN Workbook(old.rows \o to_excel(f))
                                       ELSE Workbook(to_excel(f))]

(* The writer opens the destination for writing before any cell is laid    *)
(* out: a missing parent directory or a refused open raises OSError and    *)
(* leaves the filesystem as it was; the open truncates the destination, so *)
(* a failure while saving leaves a truncated file; otherwise the file is   *)
(* the new workbook, whatever was there before.                            *)
ExportOutcome(dirEx, fault, old, f) ==
    CASE ~dirEx           -> [error |-> "OSError", dirExists |-> dirEx, file |-> old]
      [] fault = "denied" -> [error |-> "OSError", dirExists |-> dirEx, file |-> old]
      [] fault = "full"   -> [error |-> "OSError", dirExists |-> dirEx, file |-> TruncatedFile]
      [] OTHER            -> [error |-> "none", dirExists |-> dirEx, file |-> Workbook(to_excel(f))]

(* os.path.abspath of a relative path without dot components, line 31. *)
abspath(dir, p) == dir \o "/" \o p

(* A script that catches the exception and carries on. *)
AfterStepSwallow(err, next) == next

(* An uncaught exception ends the run; otherwise the next statement runs. *)
AfterStep(err, next) == IF err = "none" THEN next ELSE "failed"

----------------------------------------------------------------------------
(* The script, statement by statement.                                     *)

Dirs == {"/home/ci/MPF", "/srv/build"}

(* The literal with one column one entry short, or one entry long. *)
DropLast(s) == SubSeq(s, 1, Len(s) - 1)

WithColumn(d, c, vals) == [d EXCEPT ![c] = <<d[c][1], vals>>]

ShapeVariants ==
    {ReferenceData}
    \cup {WithColumn(ReferenceData, c, DropLast(ReferenceData[c][2])) : c \in 1..Len(ReferenceData)}
    \cup {WithColumn(ReferenceData, c, Append(ReferenceData[c][2], "extra")) : c \in 1..Len(ReferenceData)}

InitWith(literals) ==
    /\ pc = "build"
    /\ data \in literals
    /\ df = NoFrame
    /\ cwd \in Dirs
    /\ dirExists \in BOOLEAN
    /\ fsFault \in Faults
    /\ file \in (IF dirExists THEN PriorFiles ELSE {NoFile})
    /\ stdout = <<>>
    /\ error = "none"
    /\ steps = <<>>
    /\ runs = 1
    /\ prevOut = NoFile

(* The script as it stands. *)
Init == InitWith({ReferenceData})

(* The script with its literal edited into an uneven shape. *)
InitShape == InitWith(ShapeVariants)

(* Line 25. *)
Build ==
    /\ pc = "build"
    /\ LET r == DataFrame(data)
       IN  /\ df' = r.frame
           /\ error' = r.error
           /\ pc' = AfterStep(r.error, "export")
    /\ steps' = Append(steps, "build")
    /\ UNCHANGED <<data, cwd, dirExists, fsFault, file, stdout, runs, prevOut>>

(* Lines 28-29. *)
Export ==
    /\ pc = "export"
    /\ LET r == ExportOutcome(dirExists, fsFault, file, df)
       IN  /\ file' = r.file
           /\ dirExists' = r.dirExists
           /\ error' = r.error
           /\ pc' = AfterStep(r.error, "print")
    /\ steps' = Append(steps, "write")
    /\ UNCHANGED <<data, df, cwd, fsFault, stdout, runs, prevOut>>

(* Line 31. *)
PrintPath ==
    /\ pc = "print"
    /\ stdout' = Append(stdout, abspath(cwd, excel_path))
    /\ steps' = Append(steps, "print")
    /\ pc' = "done"
    /\ UNCHANGED <<data, df, cwd, dirExists, fsFault, file, error, runs, prevOut>>

(* The script is started again: a new process, the same filesystem. *)
Rerun ==
    /\ pc \in {"done", "failed"}
    /\ runs < MaxRuns
    /\ runs' = runs + 1
    /\ prevOut' = IF pc = "done" THEN file ELSE prevOut
    /\ pc' = "build"
    /\ df' = NoFrame
    /\ stdout' = <<>>
    /\ error' = "none"
    /\ steps' = <<>>
    /\ fsFault' \in Faults
    /\ UNCHANGED <<data, cwd, dirExists, file>>

Next == Build \/ Export \/ PrintPath \/ Rerun

Spec == Init /\ [][Next]_vars

SpecShape == InitShape /\ [][Next]_vars

----------------------------------------------------------------------------
(* Vocabulary of the properties.                                           *)

(* The write of this run completed. *)
Succeeded == pc \in {"print", "done"}

FieldNames ==
    <<"testCase", "testType", "username", "password", "module", "expectedResult",
      "executeFlag", "environment", "priority">>

(* The values declared under a key of the dict. *)
Declared(d, name) == d[CHOOSE j \in 1..Len(d) : d[j][1] = name][2]

(* A worksheet row as text, a cell without a value reading as "". *)
RowText(r) == [j \in 1..Len(r) |-> r[j].v]

(* The strings pandas.read_excel treats as missing by default. *)
NAValues ==
    {"", "#N/A", "#N/A N/A", "#NA", "-1.#IND", "-1.#QNAN", "-NaN", "-nan", "1.#IND", "1.#QNAN",
     "<NA>", "N/A", "NA", "NULL", "NaN", "None", "n/a", "nan", "null"}

(* A cell read back and turned into a string: a cell without a value, or   *)
(* with a missing-value marker, is NaN, whose string is "nan".             *)
ReadValue(c) == IF c.t = "blank" \/ c.v \in NAValues THEN "nan" ELSE c.v

(* The records read back from a sheet: the rows below the header. *)
ReadBack(rows) ==
    [i \in 1..(Len(rows) - 1) |-> [j \in 1..Len(rows[i + 1]) |-> ReadValue(rows[i + 1][j])]]

(* The workbook a run leaves at a destination that did not exist before. *)
FreshOutput == ExportOutcome(TRUE, "ok", NoFile, DataFrame(ReferenceData).frame).file

Mismatch(d) == \E j, k \in 1..Len(d) : Len(d[j][2]) # Len(d[k][2])

IsPrefix(s, t) == Len(s) <= Len(t) /\ s = SubSeq(t, 1, Len(s))

----------------------------------------------------------------------------
(* C1: all nine columns of the literal have as many entries as there are   *)
(* testCase identifiers, and after a successful run the workbook has that  *)
(* many rows below the header, namely 17.                                  *)
C1_RowCount ==
    /\ Len(data) = 9
    /\ \A j \in 1..Len(data) : Len(data[j][2]) = Len(Declared(data, "testCase"))
    /\ Succeeded =>
         /\ file.kind = "xlsx"
         /\ Len(file.rows) - 1 = Len(Declared(data, "testCase"))
         /\ Len(file.rows) - 1 = 17

C1_Witness == pc = "done" /\ file.kind = "xlsx" /\ Len(file.rows) = 18

(* C2: after a successful run the first row of the sheet is exactly the    *)
(* nine field names in their fixed order, with no leading index column.    *)
C2_HeaderOrder ==
    Succeeded =>
      /\ file.kind = "xlsx"
      /\ file.rows[1] = [j \in 1..9 |-> StrCell(FieldNames[j])]

C2_Witness ==
    pc = "done" /\ Len(file.rows[1]) = 9 /\ file.rows[1][9] = StrCell("priority")

(* C3 as stated: with the header as row 1, row 2 reads the TC501-1 record  *)
(* and row 15 reads the TC502-1 record.                                    *)
C3_Original ==
    Succeeded =>
      /\ RowText(file.rows[2]) =
           <<"TC501-1", "login", "Admin", "admin123", "", "Login successful", "Y", "QA", "high">>
      /\ RowText(file.rows[15]) =
           <<"TC502-1", "menu-verify", "", "", "Admin", "Admin menu visible", "Y", "QA", "medium">>

(* C3 amended: with the header as row 1, row 2 reads the TC501-1 record    *)
(* and row 16 (the fifteenth record) reads the TC502-1 record; row 15      *)
(* holds the fourteenth record, TC503-11.                                  *)
C3_Scenario ==
    Succeeded =>
      /\ RowText(file.rows[2]) =
           <<"TC501-1", "login", "Admin", "admin123", "", "Login successful", "Y", "QA", "high">>
      /\ RowText(file.rows[16]) =
           <<"TC502-1", "menu-verify", "", "", "Admin", "Admin menu visible", "Y", "QA", "medium">>
      /\ RowText(file.rows[15]) =
           <<"TC503-11", "navigation", "", "", "Buzz", "Buzz page", "Y", "QA", "low">>

C3_Witness ==
    pc = "done" /\ file.rows[16][1] = StrCell("TC502-1") /\ file.rows[2][1] = StrCell("TC501-1")

(* C4: when one column of the dict differs in length from the others, the  *)
(* construction step raises the shape error and ends the run, and no step  *)
(* of such a run creates or changes the destination, builds a frame of     *)
(* truncated or padded rows, or prints the confirmation.                   *)
C4_ShapeRejection ==
    [][Mismatch(data) =>
         /\ file' = file
         /\ dirExists' = dirExists
         /\ df' = NoFrame
         /\ stdout' = <<>>
         /\ pc = "build" => (error' = "ValueError" /\ pc' = "failed")
         /\ pc' # "export" /\ pc' # "print" /\ pc' # "done"]_vars

C4_Witness ==
    /\ Mismatch(data)
    /\ pc = "failed" /\ error = "ValueError" /\ steps = <<"build">>
    /\ file = OldWorkbook /\ stdout = <<>>

(* C5: after a successful run, workbook row i+1 holds in each column the   *)
(* i-th declared entry of that column, for every i in 1..17: nothing is    *)
(* reordered, sorted or dropped.                                           *)
C5_RowOrder ==
    Succeeded =>
      /\ Len(file.rows) = 18
      /\ \A i \in 1..17 : \A j \in 1..9 :
           /\ Len(file.rows[i + 1]) = 9
           /\ file.rows[i + 1][j].v = Declared(data, FieldNames[j])[i]

C5_Witness ==
    /\ pc = "done"
    /\ file.rows[15][1].v = "TC503-11" /\ file.rows[16][1].v = "TC502-1"
    /\ file.rows[18][1].v = "TC502-3"

(* C6: after a successful run the destination holds what a run against an  *)
(* absent destination leaves, whatever was there before, and a second      *)
(* successful run leaves what the first one left.                          *)
C6_Overwrite ==
    Succeeded =>
      /\ file = FreshOutput
      /\ prevOut.kind = "xlsx" => file = prevOut

C6_Witness ==
    pc = "done" /\ runs = 2 /\ prevOut.kind = "xlsx" /\ file = prevOut

C8_MissingDirectory ==
    /\ [](Cardinality({k \in 1..Len(steps) : steps[k] = "write"}) <= 1)
    /\ [][(pc = "export" /\ ~dirExists) =>
            /\ error' = "OSError"
            /\ pc' = "failed"
            /\ ~dirExists'
            /\ file' = file
            /\ stdout' = stdout]_vars

C8_Witness ==
    /\ pc = "failed" /\ error = "OSError" /\ steps = <<"build", "write">>
    /\ ~dirExists /\ file = NoFile

(* C9: the steps of a run are build, write, print in that order; the       *)
(* absolute path is printed once, and only by a run whose write completed; *)
(* a run that fails ends at the failing step with the error that step      *)
(* raised, nothing printed and nothing tried again.                        *)
C9_ConfirmationOrder ==
    /\ IsPrefix(steps, <<"build", "write", "print">>)
    /\ Len(stdout) <= 1
    /\ stdout # <<>> <=> pc = "done"
    /\ pc = "done" =>
         /\ stdout = <<abspath(cwd, excel_path)>>
         /\ error = "none" /\ file.kind = "xlsx"
         /\ steps = <<"build", "write", "print">>
    /\ pc = "failed" =>
         \/ steps = <<"build">> /\ error = "ValueError"
         \/ steps = <<"build", "write">> /\ error = "OSError"
    /\ pc # "failed" => error = "none"

C9_Witness ==
    /\ pc = "done" /\ steps = <<"build", "write", "print">>
    /\ stdout = <<abspath(cwd, excel_path)>> /\ runs = 2

(* C10: in every record of the frame built from the literal, username and  *)
(* password are non-empty exactly when testType is login, and module is    *)
(* non-empty exactly when it is not.                                       *)
C10_FieldPopulation ==
    pc \in {"export", "print", "done"} =>
      /\ Len(df.rows) = 17
      /\ \A i \in 1..Len(df.rows) :
           LET r == df.rows[i]
           IN  /\ r[2] \in {"login", "navigation", "menu-verify"}
               /\ r[3] # "" <=> r[2] = "login"
               /\ r[4] # "" <=> r[2] = "login"
               /\ r[5] # "" <=> r[2] # "login"

C10_Witness ==
    /\ pc = "export" /\ Len(df.rows) = 17
    /\ df.rows[3][2] = "login" /\ df.rows[3][3] = "manager" /\ df.rows[3][5] = ""
    /\ df.rows[4][2] = "navigation" /\ df.rows[4][3] = "" /\ df.rows[4][5] = "Admin"

====
